---- MODULE Spec2Model ----
(***************************************************************************)
(* A model of the E-Voting application: the Paillier arithmetic behind     *)
(* app/encryption.py, the ballot encoder of app/models/vote.py, the tally  *)
(* of app/actions/elections_actions.py, the verifier of app/views/vote.py  *)
(* and the election life cycle of app/models/election.py.                  *)
(***************************************************************************)
EXTENDS Integers, Sequences, FiniteSets, TLC

VARIABLES
    calc,       \* the last evaluation of an Encryption method: operation, key, inputs, output
    users,      \* the User rows: who can sign in
    invitations,\* the Invitation rows of the election
    posts,      \* the requests in progress: a vote checked by _can_vote and not yet saved,
                \* or an end_election that has loaded the election and not yet saved it
    election,   \* the Election row: keys, status fields and the five tally artifacts
    candidates, \* ids of the Candidate rows of the election
    next_id,    \* the next Candidate id the database hands out
    votes,      \* the Vote rows of the election, in order of creation
    cast,       \* history: the one-hot vector behind each Vote row (never stored)
    window,     \* where now lies with respect to start_date and end_date
    response    \* what the last request reported

systemVars == <<users, invitations, posts, election, candidates, next_id, votes, cast, window, response>>
vars == <<calc, users, invitations, posts, election, candidates, next_id, votes, cast, window, response>>

----------------------------------------------------------------------------
(* Python integer arithmetic                                               *)

RECURSIVE Gcd(_, _)
Gcd(a, b) == IF b = 0 THEN a ELSE Gcd(b, a % b)

\* pow(b, e, m) for e >= 0, by repeated squaring
RECURSIVE ModPow(_, _, _)
ModPow(b, e, m) ==
    IF e = 0 THEN 1 % m
    ELSE LET h == ModPow((b * b) % m, e \div 2, m)
         IN  IF e % 2 = 1 THEN (b * h) % m ELSE h

\* the modular inverse exists exactly when a and m are coprime
Invertible(a, m) == Gcd(a % m, m) = 1

\* sympy.mod_inverse(a, m) and pow(a, -1, m); both raise ValueError when no inverse exists
ModInverse(a, m) == CHOOSE x \in 0..(m - 1) : (a * x) % m = 1 % m

\* a negative exponent taken by its absolute value
PyPowMutant(b, e, m) == ModPow(b % m, IF e >= 0 THEN e ELSE 0 - e, m)
\* pow(b, e, m) as Python evaluates it: a negative exponent inverts the base first
PyPow(b, e, m) ==
    IF e >= 0 THEN ModPow(b % m, e, m) ELSE ModPow(ModInverse(b, m), 0 - e, m)

----------------------------------------------------------------------------
(* Optional values (Python None)                                           *)

None == <<>>
Some(x) == <<x>>
\* Python truthiness of an optional integer: None and 0 are falsy
Truthy(o) == o # None /\ o[1] # 0

----------------------------------------------------------------------------
(* Keys.  The post_save signal of Election builds Encryption(), whose       *)
(* Paillier object generates n = p*q, g = 1 + n, phi = (p-1)*(q-1).          *)

KeyOf(p, q) ==
    [public_key  |-> [g |-> 1 + p * q, n |-> p * q],
     private_key |-> [phi |-> (p - 1) * (q - 1)]]

\* the key pairs an election may be created with (two small prime pairs)
KeyPairs == {KeyOf(3, 5), KeyOf(5, 7)}

plaintext_modulo(keys) == keys.public_key.n
ciphertext_modulo(keys) == keys.public_key.n * keys.public_key.n

----------------------------------------------------------------------------
(* The Paillier primitives called through self.paillier                     *)

PaillierEncrypt(keys, plaintext, r) ==
    LET n == keys.public_key.n
    IN  (PyPow(keys.public_key.g, plaintext, n * n) * ModPow(r % (n * n), n, n * n)) % (n * n)

\* ciphertexts added instead of multiplied
PaillierAddMutant(keys, c1, c2) == (c1 + c2) % ciphertext_modulo(keys)
PaillierAdd(keys, c1, c2) == (c1 * c2) % ciphertext_modulo(keys)

\* the factor mu = phi^(-1) mod n left out
PaillierDecryptMutant(keys, c) ==
    LET n == keys.public_key.n
        phi == keys.private_key.phi
    IN  ((ModPow(c % (n * n), phi, n * n) - 1) \div n) % n
PaillierDecrypt(keys, c) ==
    LET n == keys.public_key.n
        phi == keys.private_key.phi
        mu == ModInverse(phi, n)
    IN  (((ModPow(c % (n * n), phi, n * n) - 1) \div n) * mu) % n

----------------------------------------------------------------------------
(* class Ciphertext and class Encryption                                    *)

Ciphertext(ciphertext, randomness) == [ciphertext |-> ciphertext, randomness |-> randomness]

\* Encryption.encrypt with the randomness given (rand is not None)
Encrypt(keys, plaintext, rand) == Ciphertext(PaillierEncrypt(keys, plaintext, rand), Some(rand))

\* the combined randomness reduced modulo n instead of modulo n * n
AddMutant(keys, ct1, ct2) ==
    Ciphertext(PaillierAdd(keys, ct1.ciphertext, ct2.ciphertext),
               IF Truthy(ct1.randomness) /\ Truthy(ct2.randomness)
               THEN Some((ct1.randomness[1] * ct2.randomness[1]) % plaintext_modulo(keys))
               ELSE None)
\* Encryption.add: the randomness is combined only when both inputs carry one
Add(keys, ct1, ct2) ==
    Ciphertext(PaillierAdd(keys, ct1.ciphertext, ct2.ciphertext),
               IF Truthy(ct1.randomness) /\ Truthy(ct2.randomness)
               THEN Some((ct1.randomness[1] * ct2.randomness[1]) % ciphertext_modulo(keys))
               ELSE None)

Decrypt(keys, ct) == PaillierDecrypt(keys, ct.ciphertext)

\* the exponent taken as phi^(-1) mod N, the inverse decrypt uses
extract_randomness_mutant(keys, ct) ==
    LET public_key_n == plaintext_modulo(keys)
        phi_n == keys.private_key.phi
        m == ModInverse(phi_n, public_key_n)
    IN  ModPow(ct.ciphertext % public_key_n, m, public_key_n)
\* Encryption.extract_randomness_from_zero_vector: r = c^M mod N with M = N^(-1) mod phi(N)
extract_randomness_from_zero_vector(keys, ct) ==
    LET public_key_n == plaintext_modulo(keys)
        phi_n == keys.private_key.phi
        m == ModInverse(public_key_n, phi_n)
    IN  ModPow(ct.ciphertext % public_key_n, m, public_key_n)

\* the comparison made modulo n instead of on the whole ciphertext
verify_zero_mutant(keys, ct) ==
    LET public_key_n == plaintext_modulo(keys)
        phi_n == keys.private_key.phi
        m == ModInverse(public_key_n, phi_n)
        r == ModPow(ct.ciphertext % public_key_n, m, public_key_n)
        test_ct == Encrypt(keys, 0, r)
    IN  test_ct.ciphertext % public_key_n = ct.ciphertext % public_key_n
\* Encryption.verify_zero: re-encrypt zero with the recovered randomness and compare
verify_zero(keys, ct) ==
    LET public_key_n == plaintext_modulo(keys)
        phi_n == keys.private_key.phi
        m == ModInverse(public_key_n, phi_n)
        r == ModPow(ct.ciphertext % public_key_n, m, public_key_n)
        test_ct == Encrypt(keys, 0, r)
    IN  test_ct.ciphertext = ct.ciphertext

----------------------------------------------------------------------------
(* Text fields holding JSON: "" (the default), a serialized list or null     *)

Blank == [blank |-> TRUE]
JsonList(list) == [blank |-> FALSE, list |-> list]

\* the text "null": JSON that parses, to None instead of a list
JsonNull == [blank |-> FALSE, null |-> TRUE]

\* Ciphertext.to_json: the randomness is written only when it is truthy
to_json(ct) ==
    [ciphertext |-> ct.ciphertext,
     randomness |-> IF Truthy(ct.randomness) THEN ct.randomness ELSE None]

\* Ciphertext.from_json: a missing randomness reads back as None
from_json(data) ==
    Ciphertext(data.ciphertext, IF data.randomness # None THEN data.randomness ELSE None)

\* sha256 of the text of the encrypted ballot, taken as collision free
Sha256(data) == <<"sha256", data>>

----------------------------------------------------------------------------
(* class Election                                                           *)

\* the key pair a later call of Encryption() would generate
LaterKeys == KeyOf(5, 7)

\* the keys generated and stored on every save of the row
generate_election_keys_mutant(instance, created, keys) ==
    [instance EXCEPT !.public_key = keys.public_key, !.private_key = keys.private_key]
\* the post_save receiver of Election: keys are generated and stored only on creation
generate_election_keys(instance, created, keys) ==
    IF created
    THEN [instance EXCEPT !.public_key = keys.public_key, !.private_key = keys.private_key]
    ELSE instance

\* election.save() on a row loaded from the database: all fields written, then post_save
Save(e) == generate_election_keys(e, FALSE, LaterKeys)

\* the row saved when an election is created, with the keys the signal stores
NewElection(keys) ==
    generate_election_keys(
        [public_key |-> Blank,
         private_key |-> Blank,
         is_public |-> FALSE,
         active |-> FALSE,
         started_at |-> "None",
         closed_at |-> "None",
         encrypted_positive_total |-> Blank,
         encrypted_negative_total |-> Blank,
         encrypted_zero_sum |-> Blank,
         zero_randomness |-> Blank,
         decrypted_total |-> Blank], TRUE, keys)

\* the row ElectionCreateView saves when the is_public box is ticked
PublicElection(keys) == [NewElection(keys) EXCEPT !.is_public = TRUE]

\* Encryption(public_key = "g,n", private_key = phi) built from the stored keys
KeysOf(e) == [public_key |-> e.public_key, private_key |-> e.private_key]

\* Election.is_voting_open: active and start_date <= now <= end_date
is_voting_open(e, w) == e.active /\ w = "open"

\* Election.is_editable compares started_at with now: a TypeError when started_at is None
is_editable_raises(e) == e.closed_at = "None" /\ e.active /\ e.started_at = "None"

\* Election.is_editable (a stored started_at lies in the past)
is_editable(e) ==
    IF e.closed_at # "None" THEN FALSE
    ELSE IF e.active /\ e.started_at # "None" THEN FALSE
    ELSE TRUE

can_be_started(e) == ~e.active /\ e.started_at = "None"
can_be_closed(e) == e.active /\ e.closed_at = "None"

----------------------------------------------------------------------------
(* class Invitation, and the access rule of a private election              *)

\* User.email of a registered user, and an address no user has registered
Email(user) == <<user, "example.org">>
Guest == <<"guest", "example.org">>

\* an invitation of any status opens the election
can_user_vote_mutant(e, user) ==
    \/ e.is_public
    \/ \E i \in invitations : i.invited_user = user \/ i.invited_email = Email(user)
\* Election.can_user_vote for a signed-in user: a public election, or an accepted
\* invitation naming the user or the user's e-mail address
can_user_vote(e, user) ==
    IF e.is_public THEN TRUE
    ELSE \/ \E i \in invitations : i.invited_user = user /\ i.status = "accepted"
         \/ \E i \in invitations : i.invited_email = Email(user) /\ i.status = "accepted"

\* Invitation.can_accept: pending, not expired, and now <= election.end_date
can_accept(i, expired, w) == i.status = "pending" /\ ~expired /\ w # "after"

\* Invitation.accept on an invitation that can be accepted: the status, and the
\* accepting user when the invitation names none
accept(i, user) ==
    [i EXCEPT !.status = "accepted",
              !.invited_user = IF i.invited_user = "None" THEN user ELSE i.invited_user]

----------------------------------------------------------------------------
(* class Vote                                                               *)

\* election.candidates.order_by('id') as a list of ids
RECURSIVE OrderById(_)
OrderById(ids) ==
    IF ids = {} THEN <<>>
    ELSE LET least == CHOOSE c \in ids : \A d \in ids : c <= d
         IN  <<least>> \o OrderById(ids \ {least})

\* the chosen id taken as a position in the list
unencrypted_ballot_mutant(candidate_ids, chosen) ==
    [i \in 1..Len(candidate_ids) |-> IF i = chosen THEN 1 ELSE 0]
\* Vote._encrypt_ballot: the one-hot vector of the chosen candidate
unencrypted_ballot(candidate_ids, chosen) ==
    [i \in 1..Len(candidate_ids) |-> IF candidate_ids[i] = chosen THEN 1 ELSE 0]

\* Vote._encrypt_ballot: every element encrypted with its own drawn randomness
encrypted_ballot(keys, candidate_ids, chosen, rs) ==
    [i \in 1..Len(candidate_ids) |->
        Encrypt(keys, unencrypted_ballot(candidate_ids, chosen)[i], rs[i]).ciphertext]

\* the Vote row that Vote.save stores
NewVote(user, keys, candidate_ids, chosen, rs) ==
    LET ballot == encrypted_ballot(keys, candidate_ids, chosen, rs)
    IN  [user |-> user, ballot |-> ballot, hashed |-> Sha256(ballot)]

\* Vote.objects.filter(user = user, election = election).exists()
HasVoted(user) == \E i \in 1..Len(votes) : votes[i].user = user

----------------------------------------------------------------------------
(* end_election: the tally                                                  *)

\* election.votes.all() follows Meta.ordering = ['-created']: newest first
RECURSIVE Reverse(_)
Reverse(s) == IF s = <<>> THEN <<>> ELSE Reverse(Tail(s)) \o <<Head(s)>>

BallotsOf(vs) == LET q == Reverse(vs) IN [i \in 1..Len(q) |-> q[i].ballot]

\* STEP 1 writes encrypted_positive_total[j] for every j of every ballot: an
\* IndexError when a ballot is longer than votes[0].ballot
TallyRaises(ballots) == \E i \in 2..Len(ballots) : Len(ballots[i]) > Len(ballots[1])

\* the sum overwritten by every ballot instead of accumulated
SumColumnMutant(keys, ballots, j, i) ==
    from_json([ciphertext |-> ballots[IF j <= Len(ballots[i]) THEN i ELSE 1][j],
               randomness |-> None])
\* STEP 1 for one index j, over the ballots 1..i
RECURSIVE SumColumn(_, _, _, _)
SumColumn(keys, ballots, j, i) ==
    IF i = 1 THEN from_json([ciphertext |-> ballots[1][j], randomness |-> None])
    ELSE LET total == SumColumn(keys, ballots, j, i - 1)
         IN  IF j <= Len(ballots[i])
             THEN Add(keys, total, from_json([ciphertext |-> ballots[i][j], randomness |-> None]))
             ELSE total

\* the five artifacts end_election computes from the ballots
Tally(keys, ballots) ==
    LET candidates_length == Len(ballots[1])
        idx == 1..candidates_length
        encrypted_positive_total == [j \in idx |-> SumColumn(keys, ballots, j, Len(ballots))]
        decrypted_positive_total == [j \in idx |-> Decrypt(keys, encrypted_positive_total[j])]
        decrypted_negative_total == [j \in idx |-> 0 - decrypted_positive_total[j]]
        encrypted_negative_total ==
            [j \in idx |-> Encrypt(keys, decrypted_negative_total[j], 1)]
        encrypted_zero_sum ==
            [j \in idx |-> Add(keys, encrypted_positive_total[j], encrypted_negative_total[j])]
        zero_randomness ==
            [j \in idx |-> extract_randomness_from_zero_vector(keys, encrypted_zero_sum[j])]
    IN  [encrypted_positive_total |-> JsonList([j \in idx |-> to_json(encrypted_positive_total[j])]),
         decrypted_total |-> JsonList(decrypted_positive_total),
         encrypted_negative_total |-> JsonList([j \in idx |-> to_json(encrypted_negative_total[j])]),
         encrypted_zero_sum |-> JsonList([j \in idx |-> to_json(encrypted_zero_sum[j])]),
         zero_randomness |-> JsonList(zero_randomness)]

\* the negative totals and the zero sums stored in each other's field
EndedMutant(e, t) ==
    [e EXCEPT !.encrypted_positive_total = t.encrypted_positive_total,
              !.decrypted_total = t.decrypted_total,
              !.encrypted_negative_total = t.encrypted_zero_sum,
              !.encrypted_zero_sum = t.encrypted_negative_total,
              !.zero_randomness = t.zero_randomness,
              !.active = FALSE]
\* election.save() after the tally: the artifacts and active = False
Ended(e, t) ==
    Save([e EXCEPT !.encrypted_positive_total = t.encrypted_positive_total,
                   !.decrypted_total = t.decrypted_total,
                   !.encrypted_negative_total = t.encrypted_negative_total,
                   !.encrypted_zero_sum = t.encrypted_zero_sum,
                   !.zero_randomness = t.zero_randomness,
                   !.active = FALSE])

----------------------------------------------------------------------------
(* Election.get_results: the counts shown, recomputed from the ballots      *)

\* Election.can_show_results: closed explicitly, or inactive and past end_date
can_show_results(e, w) == e.closed_at # "None" \/ (~e.active /\ w = "after")

\* decrypted.index(1): the first position holding a 1
IndexOfOne(decrypted) ==
    CHOOSE i \in 1..Len(decrypted) :
        decrypted[i] = 1 /\ \A k \in 1..(i - 1) : decrypted[k] # 1

\* the candidate id a ballot is counted for, if it is counted: the candidate at
\* the position of the first 1, when there is a 1 and such a candidate
CountedFor(keys, candidate_list, ballot) ==
    LET decrypted == [i \in 1..Len(ballot) |-> PaillierDecrypt(keys, ballot[i])]
    IN  IF \E i \in 1..Len(decrypted) : decrypted[i] = 1
        THEN IF IndexOfOne(decrypted) <= Len(candidate_list)
             THEN Some(candidate_list[IndexOfOne(decrypted)])
             ELSE None
        ELSE None

\* results.sort(key = votes, reverse = True): stable, by descending votes
RECURSIVE Insert(_, _)
Insert(x, s) ==
    IF s = <<>> THEN <<x>>
    ELSE IF Head(s).votes >= x.votes THEN <<Head(s)>> \o Insert(x, Tail(s))
    ELSE <<x>> \o s

RECURSIVE SortByVotes(_)
SortByVotes(s) ==
    IF s = <<>> THEN <<>>
    ELSE Insert(s[Len(s)], SortByVotes(SubSeq(s, 1, Len(s) - 1)))

\* Election.get_results over the votes vs and the candidates cs: None, or the list
\* of candidates with their votes, the number of counted votes and of candidates
get_results(e, w, vs, cs) ==
    IF ~can_show_results(e, w) THEN None
    ELSE IF vs = <<>> \/ cs = {} THEN None
    ELSE LET candidate_list == OrderById(cs)
             counted == [i \in 1..Len(vs) |-> CountedFor(KeysOf(e), candidate_list, vs[i].ballot)]
             vote_counts == [c \in cs |-> Cardinality({i \in 1..Len(vs) : counted[i] = Some(c)})]
             total_valid_votes == Cardinality({i \in 1..Len(vs) : counted[i] # None})
         IN  IF total_valid_votes = 0 THEN None
             ELSE Some([results |-> SortByVotes([i \in 1..Len(candidate_list) |->
                                      [candidate |-> candidate_list[i],
                                       votes |-> vote_counts[candidate_list[i]]]]),
                        total_votes |-> total_valid_votes,
                        candidates_count |-> Len(candidate_list)])

----------------------------------------------------------------------------
(* VerifyResultsView._verify_results: "True", "False" or "None"             *)

\* the comparison of a recomputed zero sum with the recalculated one
SameCiphertext(a, b, n) == a.ciphertext = b.ciphertext

\* the negative totals read from the stored encrypted_negative_total
stored_negative_total(e) ==
    IF e.encrypted_negative_total = Blank \/ e.encrypted_negative_total = JsonNull
    THEN [i \in 1..Len(e.decrypted_total.list) |->
            Encrypt([public_key |-> e.public_key], 0 - e.decrypted_total.list[i], 1)]
    ELSE [i \in 1..Len(e.encrypted_negative_total.list) |->
            from_json(e.encrypted_negative_total.list[i])]
\* _verify_results: each -x of decrypted_total encrypted again with randomness 1
recomputed_negative_total(e) ==
    [i \in 1..Len(e.decrypted_total.list) |->
        Encrypt([public_key |-> e.public_key], 0 - e.decrypted_total.list[i], 1)]

\* the statements run in order: json.loads of "" raises JSONDecodeError (caught: None),
\* iterating or measuring null raises TypeError (not caught), a missing index raises
\* IndexError (caught: None)
_verify_results(e) ==
    IF e.public_key = Blank THEN "None"
    ELSE IF e.decrypted_total = Blank THEN "None"
    ELSE IF e.decrypted_total = JsonNull THEN "TypeError"
    ELSE IF e.encrypted_positive_total = Blank THEN "None"
    ELSE IF e.encrypted_positive_total = JsonNull THEN "TypeError"
    ELSE IF Len(e.encrypted_positive_total.list) > Len(recomputed_negative_total(e)) THEN "None"
    ELSE IF e.zero_randomness = Blank THEN "None"
    ELSE IF e.zero_randomness = JsonNull THEN "TypeError"
    ELSE
    LET keys == [public_key |-> e.public_key]
        encrypted_negative_total == recomputed_negative_total(e)
        encrypted_positive_total == e.encrypted_positive_total.list
        zero_randomness == e.zero_randomness.list
        encrypted_zero_sum ==
            [i \in 1..Len(encrypted_positive_total) |->
                Add(keys, from_json(encrypted_positive_total[i]), encrypted_negative_total[i])]
        recalculated_zero_sum ==
            [i \in 1..Len(zero_randomness) |-> Encrypt(keys, 0, zero_randomness[i])]
    IN  IF \E i \in 1..Len(encrypted_zero_sum) :
                  /\ \A k \in 1..i : k <= Len(recalculated_zero_sum)
                  /\ \A k \in 1..(i - 1) :
                        SameCiphertext(encrypted_zero_sum[k], recalculated_zero_sum[k],
                                       e.public_key.n)
                  /\ ~SameCiphertext(encrypted_zero_sum[i], recalculated_zero_sum[i],
                                     e.public_key.n)
             THEN "False"
        ELSE IF Len(encrypted_zero_sum) > Len(recalculated_zero_sum) THEN "None"
        ELSE "True"

----------------------------------------------------------------------------
(* Inputs of the Encryption methods                                         *)

\* largest blinding factor drawn beyond a multiple of the modulus
MaxRand == 4

\* the plaintext space of a key
Plaintexts(keys) == 0..(plaintext_modulo(keys) - 1)

\* what generate_random_key may return: r in [0, n] with gcd(r, n) = 1
RandomKeys(keys) == {r \in 0..plaintext_modulo(keys) : Gcd(r, plaintext_modulo(keys)) = 1}

\* blinding factors up to MaxRand, the ones the second operand of an addition uses
SmallRands(keys) == {r \in RandomKeys(keys) : r <= MaxRand}

\* blinding factors coprime to n, below n and just above it
CoprimeRands(keys) ==
    {r \in 1..(plaintext_modulo(keys) + MaxRand) : Gcd(r, plaintext_modulo(keys)) = 1}

----------------------------------------------------------------------------
(* The Encryption methods applied to drawn inputs                           *)

InitCrypto ==
    \E keys \in KeyPairs : \E m \in Plaintexts(keys) : \E r \in CoprimeRands(keys) :
        /\ calc = [op |-> "input", keys |-> keys, args |-> <<m, r>>, out |-> <<>>]
        /\ users = {}
        /\ invitations = {}
        /\ posts = <<>>
        /\ election = PublicElection(keys)
        /\ candidates = {}
        /\ next_id = 1
        /\ votes = <<>>
        /\ cast = <<>>
        /\ window = "before"
        /\ response = [op |-> "other", outcome |-> "none"]

\* decrypt(encrypt(m, r))
CalcEncryptDecrypt ==
    /\ calc.op = "input"
    /\ LET keys == calc.keys
           m == calc.args[1]
           r == calc.args[2]
       IN  calc' = [calc EXCEPT !.op = "encrypt_decrypt",
                                !.out = <<Decrypt(keys, Encrypt(keys, m, r))>>]

\* decrypt(add(encrypt(a, r1), encrypt(b, r2)))
CalcAddDecrypt ==
    /\ calc.op = "input"
    /\ LET keys == calc.keys
           a == calc.args[1]
           r1 == calc.args[2]
       IN  \E b \in Plaintexts(keys) : \E r2 \in SmallRands(keys) :
             calc' = [calc EXCEPT
                        !.op = "add_decrypt",
                        !.args = <<a, r1, b, r2>>,
                        !.out = <<Decrypt(keys, Add(keys, Encrypt(keys, a, r1),
                                                          Encrypt(keys, b, r2)))>>]

\* verify_zero(encrypt(m, r))
CalcVerifyZero ==
    /\ calc.op = "input"
    /\ LET keys == calc.keys
           m == calc.args[1]
           r == calc.args[2]
       IN  calc' = [calc EXCEPT !.op = "verify_zero",
                                !.out = <<verify_zero(keys, Encrypt(keys, m, r))>>]

\* extract_randomness_from_zero_vector(encrypt(0, r))
CalcExtract ==
    /\ calc.op = "input"
    /\ calc.args[1] = 0
    /\ LET keys == calc.keys
           r == calc.args[2]
       IN  calc' = [calc EXCEPT
                      !.op = "extract",
                      !.out = <<extract_randomness_from_zero_vector(keys, Encrypt(keys, 0, r))>>]

\* an Encryption result, or the same ciphertext read back from JSON without randomness
Carried(r) == {Some(r), None}

\* add(ct1, ct2) where each input carries its randomness or none: the randomness
\* and the ciphertext of the result
CalcAddRandomness ==
    /\ calc.op = "input"
    /\ LET keys == calc.keys
           a == calc.args[1]
           r1 == calc.args[2]
       IN  \E r2 \in CoprimeRands(keys) :
           \E rand1 \in Carried(r1) : \E rand2 \in Carried(r2) :
             LET ct1 == Ciphertext(PaillierEncrypt(keys, a, r1), rand1)
                 ct2 == Ciphertext(PaillierEncrypt(keys, a, r2), rand2)
                 sum == Add(keys, ct1, ct2)
             IN  calc' = [calc EXCEPT !.op = "add_randomness",
                                      !.args = <<a, rand1, a, rand2, r1, r2>>,
                                      !.out = <<sum.randomness, sum.ciphertext>>]

\* how many multiples of n a plaintext lies away from [0, n)
Wraps == {-1, 1}

\* encrypt(m + k * n, r) for a plaintext outside [0, n): the outcome of the call, the
\* ciphertext and its decryption (encrypt has no raise statement and no range check)
CalcEncryptAny ==
    /\ calc.op = "input"
    /\ LET keys == calc.keys
           r == calc.args[2]
       IN  \E k \in Wraps :
             LET plaintext == calc.args[1] + k * plaintext_modulo(keys)
                 ct == Encrypt(keys, plaintext, r)
             IN  calc' = [calc EXCEPT !.op = "encrypt_any",
                                      !.args = <<plaintext, r>>,
                                      !.out = <<"returned", ct.ciphertext, Decrypt(keys, ct)>>]

NextCrypto ==
    /\ \/ CalcEncryptDecrypt
       \/ CalcAddDecrypt
       \/ CalcVerifyZero
       \/ CalcExtract
       \/ CalcAddRandomness
       \/ CalcEncryptAny
    /\ UNCHANGED systemVars

SpecCrypto == InitCrypto /\ [][NextCrypto]_vars

----------------------------------------------------------------------------
(* The application: one election, its candidates, voters and officials      *)

\* the users of the application, and the ones registered in the full life cycle
Users == {"u1", "u2", "u3"}
FewUsers == {"u1", "u2"}

\* the requests that may be in progress at once
Requests == {"r1", "r2"}

Idle == [pc |-> "idle"]

\* the key pairs of the modelled election
ElectionKeys == {KeyOf(3, 5)}

\* how many Candidate rows are ever created for the election
MaxCandidates == 2

\* largest blinding factor a ballot element is encrypted with
MaxBallotRand == 2

Windows == {"before", "open", "after"}

BallotRands(keys) == {r \in RandomKeys(keys) : r <= MaxBallotRand}

Response(op, outcome) == [op |-> op, outcome |-> outcome]

\* requests whose report the model does not tell apart
Other == Response("other", "none")

NoCalc == [op |-> "none", keys |-> KeyOf(3, 5), args |-> <<>>, out |-> <<>>]

Init ==
    /\ calc = NoCalc
    /\ users = FewUsers
    /\ invitations = {}
    /\ posts = [r \in Requests |-> Idle]
    /\ \E keys \in ElectionKeys : election = PublicElection(keys)
    /\ candidates = {}
    /\ next_id = 1
    /\ votes = <<>>
    /\ cast = <<>>
    /\ window = "before"
    /\ response = Other

\* VoteView._can_vote: voting open, the user authorized, no vote of the user yet
_can_vote(user) ==
    /\ is_voting_open(election, window)
    /\ can_user_vote(election, user)
    /\ ~HasVoted(user)

\* VoteView.post: the checks of _can_vote, then Vote.save with the encrypted ballot
VotePost ==
    \E user \in users : \E chosen \in candidates :
        /\ IF _can_vote(user)
           THEN \E rs \in [1..Cardinality(candidates) -> BallotRands(KeysOf(election))] :
                  /\ votes' = Append(votes, NewVote(user, KeysOf(election),
                                                    OrderById(candidates), chosen, rs))
                  /\ cast' = Append(cast, unencrypted_ballot(OrderById(candidates), chosen))
                  /\ response' = Response("vote", "recorded")
           ELSE /\ UNCHANGED <<votes, cast>>
                /\ response' = Response("vote", "error")
        /\ UNCHANGED <<calc, users, invitations, posts, election, candidates, next_id, window>>

\* admin action start_election
AdminStartElection ==
    /\ IF election.active
       THEN /\ election' = election
            /\ response' = Other
       ELSE /\ election' = Save([election EXCEPT !.active = TRUE])
            /\ response' = Other
    /\ UNCHANGED <<calc, users, invitations, posts, candidates, next_id, votes, cast, window>>

\* the no-votes branch ends the election instead of skipping it
NoVotesMutant(e) == [e EXCEPT !.active = FALSE]
\* end_election finds no votes: a warning, then continue; nothing is saved
NoVotes(e) == e

\* the handler ends the election although the tally raised
TallyFailedMutant(e) == [e EXCEPT !.active = FALSE]
\* end_election catches an exception of the tally: an error message; election.save() was not reached
TallyFailed(e) == e

\* admin action end_election
AdminEndElection ==
    /\ IF ~election.active
       THEN /\ election' = election
            /\ response' = Response("end_election", "already_ended")
       ELSE IF votes = <<>>
       THEN /\ election' = NoVotes(election)
            /\ response' = Response("end_election", "no_votes")
       ELSE IF TallyRaises(BallotsOf(votes))
       THEN /\ election' = TallyFailed(election)
            /\ response' = Response("end_election", "error")
       ELSE /\ election' = Ended(election, Tally(KeysOf(election), BallotsOf(votes)))
            /\ response' = Response("end_election", "ended")
    /\ UNCHANGED <<calc, users, invitations, posts, candidates, next_id, votes, cast, window>>

\* StartElectionView.post
StartElectionView ==
    /\ IF can_be_started(election)
       THEN /\ election' = Save([election EXCEPT !.active = TRUE, !.started_at = "set"])
            /\ response' = Other
       ELSE /\ election' = election
            /\ response' = Other
    /\ UNCHANGED <<calc, users, invitations, posts, candidates, next_id, votes, cast, window>>

\* CloseElectionView.post
CloseElectionView ==
    /\ IF can_be_closed(election)
       THEN /\ election' = Save([election EXCEPT !.active = FALSE, !.closed_at = "set"])
            /\ response' = Other
       ELSE /\ election' = election
            /\ response' = Other
    /\ UNCHANGED <<calc, users, invitations, posts, candidates, next_id, votes, cast, window>>

\* ElectionUpdateView with ElectionUpdateForm: the dates, the is_public and the
\* active checkbox
ElectionUpdate ==
    \E active \in BOOLEAN : \E is_public \in BOOLEAN : \E w \in Windows :
        /\ IF is_editable_raises(election)
           THEN /\ UNCHANGED <<election, window>>
                /\ response' = Other
           ELSE IF is_editable(election)
           THEN /\ election' = Save([election EXCEPT !.active = active,
                                                     !.is_public = is_public])
                /\ window' = w
                /\ response' = Other
           ELSE /\ UNCHANGED <<election, window>>
                /\ response' = Other
        /\ UNCHANGED <<calc, users, invitations, posts, candidates, next_id, votes, cast>>

\* CandidateCreateView
CandidateCreate ==
    /\ next_id <= MaxCandidates
    /\ IF is_editable_raises(election)
       THEN /\ UNCHANGED <<candidates, next_id>>
            /\ response' = Other
       ELSE IF is_editable(election)
       THEN /\ candidates' = candidates \cup {next_id}
            /\ next_id' = next_id + 1
            /\ response' = Other
       ELSE /\ UNCHANGED <<candidates, next_id>>
            /\ response' = Other
    /\ UNCHANGED <<calc, users, invitations, posts, election, votes, cast, window>>

\* CandidateDeleteView
CandidateDelete ==
    \E c \in candidates :
        /\ IF is_editable_raises(election)
           THEN /\ UNCHANGED candidates
                /\ response' = Other
           ELSE IF is_editable(election)
           THEN /\ candidates' = candidates \ {c}
                /\ response' = Other
           ELSE /\ UNCHANGED candidates
                /\ response' = Other
        /\ UNCHANGED <<calc, users, invitations, posts, election, next_id, votes, cast, window>>

\* VerifyResultsView.get
VerifyResultsGet ==
    /\ response' = Response("verify", _verify_results(election))
    /\ UNCHANGED <<calc, users, invitations, posts, election, candidates, next_id, votes, cast, window>>

\* time passes: now moves past start_date, then past end_date
Tick ==
    /\ window # "after"
    /\ window' = IF window = "before" THEN "open" ELSE "after"
    /\ response' = Other
    /\ UNCHANGED <<calc, users, invitations, posts, election, candidates, next_id, votes, cast>>

Next ==
    \/ VotePost
    \/ AdminStartElection
    \/ AdminEndElection
    \/ StartElectionView
    \/ CloseElectionView
    \/ ElectionUpdate
    \/ CandidateCreate
    \/ CandidateDelete
    \/ VerifyResultsGet
    \/ Tick

Spec == Init /\ [][Next]_vars

----------------------------------------------------------------------------
(* A private election and its invitations                                   *)

\* the addresses an official invites
Emails == {Email(u) : u \in FewUsers} \cup {Guest}

\* send_invitations with one address: InvitationForm rejects an address already
\* invited; the invitation names the user registered with the address, if any
SendInvitations ==
    \E email \in Emails :
        /\ IF is_editable_raises(election)
           THEN UNCHANGED invitations
           ELSE IF ~is_editable(election) \/ election.is_public
           THEN UNCHANGED invitations
           ELSE IF \E i \in invitations : i.invited_email = email
           THEN UNCHANGED invitations
           ELSE invitations' = invitations \cup
                    {[invited_email |-> email,
                      invited_user |-> IF \E u \in users : Email(u) = email
                                       THEN CHOOSE u \in users : Email(u) = email
                                       ELSE "None",
                      status |-> "pending"]}
        /\ response' = Other
        /\ UNCHANGED <<calc, users, posts, election, candidates, next_id, votes, cast, window>>

\* invitation_accept with response = accept (or process_pending_invitation after the
\* login): whoever opens the link of the invitation and is signed in accepts it
InvitationAccept ==
    \E i \in invitations : \E user \in users : \E expired \in BOOLEAN :
        /\ IF can_accept(i, expired, window)
           THEN invitations' = (invitations \ {i}) \cup {accept(i, user)}
           ELSE UNCHANGED invitations
        /\ response' = Other
        /\ UNCHANGED <<calc, users, posts, election, candidates, next_id, votes, cast, window>>

\* invitation_accept with response = decline
InvitationDecline ==
    \E i \in invitations : \E expired \in BOOLEAN :
        /\ IF can_accept(i, expired, window)
           THEN invitations' = (invitations \ {i}) \cup {[i EXCEPT !.status = "declined"]}
           ELSE UNCHANGED invitations
        /\ response' = Other
        /\ UNCHANGED <<calc, users, posts, election, candidates, next_id, votes, cast, window>>

\* cancel_invitation: a pending invitation is deleted
CancelInvitation ==
    \E i \in invitations :
        /\ IF i.status # "pending"
           THEN UNCHANGED invitations
           ELSE invitations' = invitations \ {i}
        /\ response' = Other
        /\ UNCHANGED <<calc, users, posts, election, candidates, next_id, votes, cast, window>>

\* a private election with one candidate, not started, and no invitation yet
InitInvite ==
    /\ calc = NoCalc
    /\ users = FewUsers
    /\ invitations = {}
    /\ posts = [r \in Requests |-> Idle]
    /\ \E keys \in ElectionKeys : election = NewElection(keys)
    /\ candidates = {1}
    /\ next_id = 2
    /\ votes = <<>>
    /\ cast = <<>>
    /\ window = "before"
    /\ response = Other

NextInvite ==
    \/ SendInvitations
    \/ InvitationAccept
    \/ InvitationDecline
    \/ CancelInvitation
    \/ ElectionUpdate
    \/ VotePost

SpecInvite == InitInvite /\ [][NextInvite]_vars

----------------------------------------------------------------------------
(* An election in its voting period: candidates 1..k added, started through *)
(* StartElectionView, now between start_date and end_date                   *)

Polling(keys, k, registered) ==
    /\ calc = NoCalc
    /\ users = registered
    /\ invitations = {}
    /\ posts = [r \in Requests |-> Idle]
    /\ election = [PublicElection(keys) EXCEPT !.active = TRUE, !.started_at = "set"]
    /\ candidates = 1..k
    /\ next_id = k + 1
    /\ votes = <<>>
    /\ cast = <<>>
    /\ window = "open"
    /\ response = Other

InitPoll == \E keys \in ElectionKeys : \E k \in 1..MaxCandidates : Polling(keys, k, Users)

NextPoll ==
    \/ VotePost
    \/ AdminEndElection
    \/ VerifyResultsGet

\* every registered user votes, then the election is ended and verified
SpecPoll == InitPoll /\ [][NextPoll]_vars

----------------------------------------------------------------------------
(* Vote submissions that overlap: VoteView.post up to the return of         *)
(* _can_vote, then from Vote(...) to vote.save()                            *)

PostCheck ==
    \E r \in Requests : \E user \in users : \E chosen \in candidates :
        /\ posts[r].pc = "idle"
        /\ IF _can_vote(user)
           THEN /\ posts' = [posts EXCEPT ![r] = [pc |-> "checked", user |-> user,
                                                  chosen |-> chosen]]
                /\ response' = Other
           ELSE /\ posts' = posts
                /\ response' = Response("vote", "error")
        /\ UNCHANGED <<calc, users, invitations, election, candidates, next_id, votes, cast, window>>

\* the INSERT always succeeds: no unique index on (user, election)
PostSaveMutant ==
    \E r \in Requests :
        /\ posts[r].pc = "checked"
        /\ \E rs \in [1..Cardinality(candidates) -> BallotRands(KeysOf(election))] :
             /\ votes' = Append(votes, NewVote(posts[r].user, KeysOf(election),
                                               OrderById(candidates), posts[r].chosen, rs))
             /\ cast' = Append(cast, unencrypted_ballot(OrderById(candidates), posts[r].chosen))
             /\ response' = Response("vote", "recorded")
        /\ posts' = [posts EXCEPT ![r] = Idle]
        /\ UNCHANGED <<calc, users, invitations, election, candidates, next_id, window>>

\* Vote.save: the INSERT fails with IntegrityError on unique_together (user, election),
\* which post reports as an error
PostSave ==
    \E r \in Requests :
        /\ posts[r].pc = "checked"
        /\ IF HasVoted(posts[r].user)
           THEN /\ UNCHANGED <<votes, cast>>
                /\ response' = Response("vote", "integrity_error")
           ELSE \E rs \in [1..Cardinality(candidates) -> BallotRands(KeysOf(election))] :
                  /\ votes' = Append(votes, NewVote(posts[r].user, KeysOf(election),
                                                    OrderById(candidates), posts[r].chosen, rs))
                  /\ cast' = Append(cast, unencrypted_ballot(OrderById(candidates),
                                                             posts[r].chosen))
                  /\ response' = Response("vote", "recorded")
        /\ posts' = [posts EXCEPT ![r] = Idle]
        /\ UNCHANGED <<calc, users, invitations, election, candidates, next_id, window>>

InitRace == \E keys \in ElectionKeys : \E k \in 1..MaxCandidates : Polling(keys, k, FewUsers)

NextRace ==
    \/ PostCheck
    \/ PostSave
    \/ AdminStartElection
    \/ AdminEndElection
    \/ Tick

SpecRace == InitRace /\ [][NextRace]_vars

----------------------------------------------------------------------------
(* Vote submissions while the candidates change: a Candidate row deleted    *)
(* on the admin site, where Candidate is registered                         *)

AdminDeleteCandidate ==
    \E c \in candidates :
        /\ candidates' = candidates \ {c}
        /\ response' = Other
        /\ UNCHANGED <<calc, users, invitations, posts, election, next_id, votes, cast, window>>

InitEncode == \E keys \in ElectionKeys : \E k \in 1..MaxCandidates : Polling(keys, k, FewUsers)

NextEncode ==
    \/ PostCheck
    \/ PostSave
    \/ AdminDeleteCandidate

SpecEncode == InitEncode /\ [][NextEncode]_vars

----------------------------------------------------------------------------
(* Runs of end_election that overlap: the election is loaded from the       *)
(* queryset and tested for active, then the tally is computed from the      *)
(* votes and election.save() writes the loaded row back                     *)

EndRead ==
    \E r \in Requests :
        /\ posts[r].pc = "idle"
        /\ IF ~election.active
           THEN /\ posts' = posts
                /\ response' = Response("end_election", "already_ended")
           ELSE /\ posts' = [posts EXCEPT ![r] = [pc |-> "ending", election |-> election]]
                /\ response' = Other
        /\ UNCHANGED <<calc, users, invitations, election, candidates, next_id, votes, cast, window>>

EndSave ==
    \E r \in Requests :
        /\ posts[r].pc = "ending"
        /\ IF votes = <<>>
           THEN /\ election' = NoVotes(election)
                /\ response' = Response("end_election", "no_votes")
           ELSE IF TallyRaises(BallotsOf(votes))
           THEN /\ election' = TallyFailed(election)
                /\ response' = Response("end_election", "error")
           ELSE /\ election' = Ended(posts[r].election,
                                     Tally(KeysOf(posts[r].election), BallotsOf(votes)))
                /\ response' = Response("end_election", "ended")
        /\ posts' = [posts EXCEPT ![r] = Idle]
        /\ UNCHANGED <<calc, users, invitations, candidates, next_id, votes, cast, window>>

InitEndRace == \E keys \in ElectionKeys : \E k \in 1..MaxCandidates : Polling(keys, k, FewUsers)

NextEndRace ==
    \/ VotePost
    \/ EndRead
    \/ EndSave

SpecEndRace == InitEndRace /\ [][NextEndRace]_vars

----------------------------------------------------------------------------
(* The verifier applied to stored artifacts: those of an ended election,    *)
(* as persisted or with one field emptied, replaced or shortened            *)

\* one or two voters of an election with the candidates 1..k, in order of voting
VotesOf(keys, k) ==
    LET ids == OrderById(1..k)
        first == {NewVote("u1", keys, ids, chosen, rs) :
                     chosen \in 1..k, rs \in [1..k -> BallotRands(keys)]}
        second == {NewVote("u2", keys, ids, chosen, rs) :
                      chosen \in 1..k, rs \in [1..k -> BallotRands(keys)]}
    IN  {<<v>> : v \in first} \cup {<<v, w>> : v \in first, w \in second}

ArtifactFields == {"decrypted_total", "encrypted_positive_total", "zero_randomness"}

\* what may have happened to the stored row before it is verified
Defects ==
    {[field |-> "none", kind |-> "none"],
     [field |-> "public_key", kind |-> "blank"],
     [field |-> "decrypted_total", kind |-> "changed"]}
    \cup [field : ArtifactFields, kind : {"blank", "null", "shorter"}]

Defective(e, d) ==
    IF d.kind = "none" THEN e
    ELSE IF d.kind = "blank" THEN [e EXCEPT ![d.field] = Blank]
    ELSE IF d.kind = "null" THEN [e EXCEPT ![d.field] = JsonNull]
    ELSE IF d.kind = "shorter"
    THEN [e EXCEPT ![d.field] = JsonList(SubSeq(e[d.field].list, 1, Len(e[d.field].list) - 1))]
    ELSE [e EXCEPT !.decrypted_total =
                      JsonList([e.decrypted_total.list EXCEPT ![1] = @ + 1])]

InitVerify ==
    \E keys \in ElectionKeys : \E k \in 1..MaxCandidates :
    \E vs \in VotesOf(keys, k) : \E d \in Defects :
        /\ calc = NoCalc
        /\ users = FewUsers
        /\ invitations = {}
        /\ posts = [r \in Requests |-> Idle]
        /\ election = Defective(
               Ended([PublicElection(keys) EXCEPT !.active = TRUE, !.started_at = "set"],
                     Tally(keys, BallotsOf(vs))), d)
        /\ candidates = 1..k
        /\ next_id = k + 1
        /\ votes = vs
        /\ cast = [i \in 1..Len(vs) |->
                      [j \in 1..k |-> Decrypt(keys, Ciphertext(vs[i].ballot[j], None))]]
        /\ window = "after"
        /\ response = Other

NextVerify == VerifyResultsGet

SpecVerify == InitVerify /\ [][NextVerify]_vars

----------------------------------------------------------------------------
(* Claims about the tally and its verification                              *)

Artifacts(e) ==
    <<e.encrypted_positive_total, e.decrypted_total, e.encrypted_negative_total,
      e.encrypted_zero_sum, e.zero_randomness>>

NoArtifacts == <<Blank, Blank, Blank, Blank, Blank>>

JustEnded == response = Response("end_election", "ended")

\* every ballot is the encryption of a one-hot vector of one common length
SameLength == \A i \in 1..Len(cast) : Len(cast[i]) = Len(cast[1])

\* how many ballots have their 1 at index j
CountAt(j) == Cardinality({i \in 1..Len(cast) : cast[i][j] = 1})

(* C1: after end_election succeeds on an election whose ballots all encrypt *)
(* one-hot vectors of the same length, decrypted_total[i] is the number of  *)
(* ballots with their 1 at index i                                          *)
C1_TallyCounts ==
    (JustEnded /\ SameLength) =>
        election.decrypted_total = JsonList([j \in 1..Len(cast[1]) |-> CountAt(j)])

\* ballots [A, A, B] over the candidates [A, B]: the totals are [2, 1]
C1_Witness ==
    /\ JustEnded
    /\ cast = <<<<1, 0>>, <<1, 0>>, <<0, 1>>>>
    /\ election.decrypted_total = JsonList(<<2, 1>>)

(* C2: _verify_results returns True on the artifacts a successful           *)
(* end_election persisted, for any number of candidates from one up         *)
C2_HonestVerifies ==
    /\ Artifacts(election) # NoArtifacts => _verify_results(election) = "True"
    /\ (response.op = "verify" /\ Artifacts(election) # NoArtifacts)
          => response.outcome = "True"

\* a one-candidate election was tallied and its verification reported True
C2_Witness ==
    /\ response = Response("verify", "True")
    /\ Len(election.decrypted_total.list) = 1
    /\ Len(votes) >= 1

\* decrypted_total replaced by the vector v
Tampered(e, v) == [e EXCEPT !.decrypted_total = JsonList(v)]

\* replacements of decrypted_total: at every index a count any electorate of this size
\* could produce, or the honest count plus the modulus n
Replacements(e) ==
    LET honest == e.decrypted_total.list
        top == Cardinality(users) + 1
        codes == [1..Len(honest) -> 0..top]
    IN  {[i \in 1..Len(honest) |->
            IF c[i] = top THEN honest[i] + e.public_key.n ELSE c[i]] : c \in codes}

Congruent(v, w, n) == \A i \in 1..Len(v) : v[i] % n = w[i] % n

(* C3: after a successful tally, _verify_results returns False             *)
(* for every replacement of decrypted_total of the same length that differs *)
(* from the honest vector in at least one index                             *)
C3_AnyTamperingFails ==
    JustEnded =>
        \A v \in Replacements(election) :
            v # election.decrypted_total.list
                => _verify_results(Tampered(election, v)) = "False"

(* What the verifier does guarantee, C3 restricted to vectors that differ   *)
(* modulo n: such a replacement of decrypted_total makes _verify_results    *)
(* return False                                                             *)
TamperingModuloNFails ==
    JustEnded =>
        \A v \in Replacements(election) :
            ~Congruent(v, election.decrypted_total.list, election.public_key.n)
                => _verify_results(Tampered(election, v)) = "False"

(* C7: end_election on an active election without ballots reports that no  *)
(* votes were found, leaves the election active and leaves the five         *)
(* artifact fields as they were                                             *)
C7_NoVotes ==
    [][(election.active /\ votes = <<>> /\ response'.op = "end_election")
         => /\ response'.outcome = "no_votes"
            /\ election'.active
            /\ Artifacts(election') = Artifacts(election)]_vars

\* end_election has just reported no votes for an election that is still active
C7_Witness ==
    /\ response = Response("end_election", "no_votes")
    /\ election.active
    /\ votes = <<>>
    /\ Artifacts(election) = NoArtifacts

(* C8: the tally runs at most once per election: once end_election has      *)
(* persisted the artifacts, no later end_election computes and persists     *)
(* them again                                                               *)
C8_TallyOnce ==
    [][Artifacts(election) # NoArtifacts
         => ~(response'.op = "end_election" /\ response'.outcome = "ended")]_vars

(* C9: at most one Vote exists per user of the election, whatever the       *)
(* interleaving of submissions, and a stored Vote never changes: a later    *)
(* submission of the same user is rejected                                  *)
C9_OneVotePerUser ==
    /\ [](\A i, j \in 1..Len(votes) : votes[i].user = votes[j].user => i = j)
    /\ [][\A i \in 1..Len(votes) : Len(votes') >= i /\ votes'[i] = votes[i]]_vars

\* both requests carried the same user past _can_vote; one was saved, the other was
\* rejected by the unique index and the stored vote stayed
C9_Witness ==
    /\ response = Response("vote", "integrity_error")
    /\ Len(votes) = 1
    /\ \A r \in Requests : posts[r].pc = "idle"

(* C10: when end_election raises inside the tally, no artifact field is     *)
(* persisted, no vote changes and the election stays active, so that a      *)
(* retry is not turned away as already ended                                *)
C10_FailureKeepsState ==
    [][/\ (response'.op = "end_election" /\ response'.outcome = "error")
            => (election' = election /\ election'.active /\ votes' = votes)
       /\ (response = Response("end_election", "error") /\ response'.op = "end_election")
            => response'.outcome # "already_ended"]_vars

\* end_election has just failed on ballots of unequal length
C10_Witness ==
    /\ response = Response("end_election", "error")
    /\ election.active
    /\ Len(votes) = 2

(* C11: when two runs of end_election on the same active election          *)
(* interleave, at most one of them persists artifacts: once a run has       *)
(* ended the election, no other run succeeds                                *)
C11_OneRunPersists ==
    [][~election.active => response' # Response("end_election", "ended")]_vars

IsList(x) == x # Blank /\ x # JsonNull

\* a required artifact is empty, is not a list, or is shorter than another one
Unusable(e) ==
    \/ e.public_key = Blank
    \/ \E f \in ArtifactFields : ~IsList(e[f])
    \/ \E f, h \in ArtifactFields : Len(e[f].list) < Len(e[h].list)

(* C12: _verify_results returns None, and never True, False or an           *)
(* exception, whenever public_key, decrypted_total, encrypted_positive_total *)
(* or zero_randomness is empty, of the wrong JSON shape or shorter than the  *)
(* others                                                                   *)
C12_UnusableIsIndeterminate ==
    (response.op = "verify" /\ Unusable(election)) => response.outcome = "None"

\* other contents of the fields the verifier has no use for
OtherPrivateKeys == {Blank, KeyOf(5, 7).private_key}
OtherLists ==
    {Blank, JsonList(<<>>),
     JsonList(<<[ciphertext |-> 1, randomness |-> None],
                [ciphertext |-> 1, randomness |-> None]>>)}

C20_VerifiedCoversEveryIndex ==
    response = Response("verify", "True") =>
        LET keys == [public_key |-> election.public_key]
            dt == election.decrypted_total.list
            ept == election.encrypted_positive_total.list
            zr == election.zero_randomness.list
        IN  /\ Len(ept) >= Len(dt)
            /\ Len(ept) >= Len(zr)
            /\ \A i \in 1..Len(dt) :
                  Add(keys, from_json(ept[i]), Encrypt(keys, 0 - dt[i], 1)).ciphertext
                     = Encrypt(keys, 0, zr[i]).ciphertext

(* C14: whenever the artifacts are persisted, encrypted_positive_total[i]   *)
(* is the homomorphic sum of the i-th ciphertext of all ballots now stored  *)
(* for the election: no ballot is added after the tally was persisted       *)
C14_TotalOfStoredBallots ==
    Artifacts(election) # NoArtifacts =>
        LET ballots == BallotsOf(votes)
        IN  election.encrypted_positive_total =
                JsonList([j \in 1..Len(ballots[1]) |->
                             to_json(SumColumn(KeysOf(election), ballots, j, Len(ballots)))])

(* C15: an election is marked closed exactly when its tally has been        *)
(* persisted: closed_at is set if and only if the five artifacts are        *)
(* persisted                                                                *)
C15_ClosedIffTallied ==
    (election.closed_at # "None") <=> (Artifacts(election) # NoArtifacts)

(* C16: once the key pair is stored at creation, no operation changes       *)
(* public_key or private_key                                                *)
C16_KeysNeverChange ==
    /\ [](election.public_key # Blank /\ election.private_key # Blank)
    /\ [][/\ election'.public_key = election.public_key
          /\ election'.private_key = election.private_key]_vars

\* started, voted, ended by the admin action and verified: the keys are those of creation
C16_Witness ==
    /\ response = Response("verify", "True")
    /\ election.started_at = "set"
    /\ Len(votes) = 2
    /\ \E keys \in ElectionKeys : NewElection(keys).public_key = election.public_key
                               /\ NewElection(keys).private_key = election.private_key

----------------------------------------------------------------------------
(* C4: decrypting the homomorphic sum of encrypt(a) and encrypt(b) gives    *)
(* (a + b) mod n, for all plaintexts a, b and blinding factors coprime to n *)
C4_Homomorphism ==
    calc.op = "add_decrypt" =>
        calc.out[1] = (calc.args[1] + calc.args[3]) % plaintext_modulo(calc.keys)

\* the sum of two plaintexts has wrapped around the plaintext space
C4_Witness ==
    /\ calc.op = "add_decrypt"
    /\ calc.args[1] + calc.args[3] >= plaintext_modulo(calc.keys)
    /\ calc.args[2] > 1 /\ calc.args[4] > 1
    /\ calc.out[1] = calc.args[1] + calc.args[3] - plaintext_modulo(calc.keys)

(* C5: decrypt(encrypt(m, r)) = m for every plaintext m in [0, n) and every *)
(* blinding factor r coprime to n                                           *)
C5_RoundTrip ==
    calc.op = "encrypt_decrypt" => calc.out[1] = calc.args[1]

C5_Witness ==
    /\ calc.op = "encrypt_decrypt"
    /\ calc.args[1] = plaintext_modulo(calc.keys) - 1
    /\ calc.args[2] > plaintext_modulo(calc.keys)
    /\ calc.out[1] = calc.args[1]

(* C6: verify_zero(encrypt(0, r)) is true and verify_zero(encrypt(m, r)) is *)
(* false for every nonzero plaintext m, for every r coprime to n            *)
C6_VerifyZero ==
    calc.op = "verify_zero" => (calc.out[1] <=> (calc.args[1] = 0))

C6_Witness ==
    /\ calc.op = "verify_zero"
    /\ calc.args[1] = 1
    /\ calc.args[2] > 1
    /\ calc.out[1] = FALSE

(* C17: for c = encrypt(0, r) with r coprime to n, also with r >= n,        *)
(* extract_randomness_from_zero_vector(c) returns r mod n, the only value   *)
(* in [1, n) whose encryption of zero equals c                              *)
C17_ExtractsRandomness ==
    calc.op = "extract" =>
        LET keys == calc.keys
            n == plaintext_modulo(keys)
            r == calc.args[2]
        IN  /\ calc.out[1] = r % n
            /\ calc.out[1] \in 1..(n - 1)
            /\ \A x \in 1..(n - 1) :
                  (Encrypt(keys, 0, x).ciphertext = Encrypt(keys, 0, r).ciphertext)
                     <=> (x = calc.out[1])

\* a blinding factor above the modulus is recovered reduced
C17_Witness ==
    /\ calc.op = "extract"
    /\ calc.args[2] > plaintext_modulo(calc.keys) + 1
    /\ calc.out[1] = calc.args[2] - plaintext_modulo(calc.keys)

\* the stored ballot, element by element decrypted with the key of the election
Opened(ballot) ==
    [i \in 1..Len(ballot) |-> Decrypt(KeysOf(election), Ciphertext(ballot[i], None))]

(* C18: the ballot Vote._encrypt_ballot stores for a chosen candidate of    *)
(* the election has one element per candidate, and its i-th element         *)
(* decrypts to 1 exactly when the i-th candidate in ascending id order is   *)
(* the chosen one and to 0 otherwise, so that it holds exactly one 1        *)
C18_OneHotBallot ==
    [][\A r \in Requests :
          (/\ posts[r].pc = "checked"
           /\ posts'[r].pc = "idle"
           /\ Len(votes') = Len(votes) + 1
           /\ posts[r].chosen \in candidates)
          => LET ballot == votes'[Len(votes')].ballot
                 ids == OrderById(candidates)
             IN  /\ Len(ballot) = Cardinality(candidates)
                 /\ \A i \in 1..Len(ballot) :
                       Opened(ballot)[i] = IF ids[i] = posts[r].chosen THEN 1 ELSE 0
                 /\ Cardinality({i \in 1..Len(ballot) : Opened(ballot)[i] = 1}) = 1]_vars

\* the second of two candidates was chosen, by a blinding factor other than 1
C18_Witness ==
    /\ response = Response("vote", "recorded")
    /\ candidates = {1, 2}
    /\ Len(votes) = 1
    /\ votes[1].ballot[1] # 1
    /\ Opened(votes[1].ballot) = <<0, 1>>

(* C19: saving a vote for a chosen candidate that is not among the          *)
(* candidates of the election fails and stores no Vote; an encrypted        *)
(* all-zero vector is never stored                                          *)
C19_UnknownCandidateRejected ==
    [][\A r \in Requests :
          (/\ posts[r].pc = "checked"
           /\ posts'[r].pc = "idle"
           /\ posts[r].chosen \notin candidates)
          => (votes' = votes /\ response' # Response("vote", "recorded"))]_vars

----------------------------------------------------------------------------
(* Claims about the persisted artifacts, the Encryption methods on any      *)
(* input, and the life cycle of an election                                 *)

(* C21: the artifacts a successful end_election persisted agree with each   *)
(* other at every index i: encrypted_negative_total[i] is the encryption of *)
(* -decrypted_total[i] with randomness 1, encrypted_zero_sum[i] is the sum  *)
(* of the positive and the negative total, and encrypting 0 with            *)
(* zero_randomness[i] gives the ciphertext of encrypted_zero_sum[i]; so the *)
(* values the verifier recomputes are the stored ones                       *)
C21_ArtifactsConsistent ==
    election.decrypted_total # Blank =>
        LET keys == KeysOf(election)
            decrypted_total == election.decrypted_total.list
            positive == election.encrypted_positive_total.list
            negative == election.encrypted_negative_total.list
            zero_sum == election.encrypted_zero_sum.list
            zero_randomness == election.zero_randomness.list
        IN  /\ Len(positive) = Len(decrypted_total)
            /\ Len(negative) = Len(decrypted_total)
            /\ Len(zero_sum) = Len(decrypted_total)
            /\ Len(zero_randomness) = Len(decrypted_total)
            /\ \A i \in 1..Len(decrypted_total) :
                  /\ negative[i] = to_json(Encrypt(keys, 0 - decrypted_total[i], 1))
                  /\ negative[i] = to_json(recomputed_negative_total(election)[i])
                  /\ zero_sum[i] =
                        to_json(Add(keys, from_json(positive[i]), from_json(negative[i])))
                  /\ Encrypt(keys, 0, zero_randomness[i]).ciphertext
                        = from_json(zero_sum[i]).ciphertext

\* three ballots over two candidates were tallied to [2, 1]; the zero sums are
\* blinded by factors other than 1
C21_Witness ==
    /\ JustEnded
    /\ election.decrypted_total = JsonList(<<2, 1>>)
    /\ \A i \in 1..2 : election.zero_randomness.list[i] # 1

(* C22, as the code has it: when both inputs of Encryption.add carry a      *)
(* randomness, the result carries their product reduced modulo n * n, the    *)
(* ciphertext modulus; that value is congruent to r1 * r2 modulo n and       *)
(* encrypts the sum of the plaintexts to the ciphertext of the result; when  *)
(* either input carries none, the result carries none                        *)
C22_AddRandomness ==
    calc.op = "add_randomness" =>
        LET keys == calc.keys
            n == plaintext_modulo(keys)
            r1 == calc.args[5]
            r2 == calc.args[6]
        IN  IF calc.args[2] # None /\ calc.args[4] # None
            THEN /\ calc.out[1] = Some((r1 * r2) % (n * n))
                 /\ calc.out[1][1] % n = (r1 * r2) % n
                 /\ PaillierEncrypt(keys, (calc.args[1] + calc.args[3]) % n, calc.out[1][1])
                       = calc.out[2]
            ELSE calc.out[1] = None

\* under n = 15 the inputs carry 16 and 19: the result carries 304 mod 225 = 79,
\* neither the product nor its residue modulo n
C22_Witness ==
    /\ calc.op = "add_randomness"
    /\ calc.keys = KeyOf(3, 5)
    /\ calc.args[2] = Some(16)
    /\ calc.args[4] = Some(19)
    /\ calc.out[1] = Some(79)

(* C22, as stated: when both inputs carry a randomness the result carries   *)
(* (r1 * r2) mod n, n the plaintext modulus; otherwise it carries none       *)
C22_AddRandomnessModN ==
    calc.op = "add_randomness" =>
        LET n == plaintext_modulo(calc.keys)
        IN  IF calc.args[2] # None /\ calc.args[4] # None
            THEN calc.out[1] = Some((calc.args[5] * calc.args[6]) % n)
            ELSE calc.out[1] = None

Orders(k) == {p \in [1..k -> 1..k] : \A i, j \in 1..k : p[i] = p[j] => i = j}

\* the ciphertext values of encrypted_positive_total, and decrypted_total
Totals(keys, ballots) ==
    LET t == Tally(keys, ballots)
    IN  <<[j \in 1..Len(t.encrypted_positive_total.list) |->
              t.encrypted_positive_total.list[j].ciphertext],
          t.decrypted_total>>

\* the tally of the ballots taken in the order p gives what the tally of
\* the ballots as read gives: the same exception or the same totals
SameTally(keys, ballots, p) ==
    LET permuted == [i \in 1..Len(ballots) |-> ballots[p[i]]]
    IN  /\ TallyRaises(permuted) = TallyRaises(ballots)
        /\ ~TallyRaises(ballots) => Totals(keys, permuted) = Totals(keys, ballots)

(* C24: for the ballots stored for an election, the ciphertext values of    *)
(* encrypted_positive_total, and decrypted_total, are the same for every    *)
(* order in which end_election may sum them                                 *)
C24_OrderIndependent ==
    votes # <<>> =>
        \A p \in Orders(Len(votes)) : SameTally(KeysOf(election), BallotsOf(votes), p)

\* the same for ballots of one common length only
OrderIndependentOnEqualLengths ==
    (votes # <<>> /\ \A i \in 1..Len(votes) : Len(votes[i].ballot) = Len(votes[1].ballot)) =>
        \A p \in Orders(Len(votes)) : SameTally(KeysOf(election), BallotsOf(votes), p)

\* the user holds an accepted invitation, by invited_user or by e-mail address
HoldsAccepted(user) ==
    \E i \in invitations :
        /\ i.status = "accepted"
        /\ i.invited_user = user \/ i.invited_email = Email(user)

(* C25: a vote that VoteView.post stores for a non-public election is cast  *)
(* by a user who at that moment holds an accepted invitation to the         *)
(* election, by invited_user or by the own e-mail address; without one no   *)
(* Vote is stored                                                           *)
C25_InvitedVotersOnly ==
    [][(Len(votes') = Len(votes) + 1 /\ ~election.is_public)
          => HoldsAccepted(votes'[Len(votes')].user)]_vars

\* a vote was stored in a private election by the user who accepted the
\* invitation sent to an address without an account
C25_Witness ==
    /\ response = Response("vote", "recorded")
    /\ ~election.is_public
    /\ Len(votes) = 1
    /\ \E i \in invitations :
          /\ i.invited_email = Guest
          /\ i.invited_user = votes[1].user
          /\ i.status = "accepted"
    /\ \E i \in invitations : i.status = "pending"

(* C26: once close_election() has succeeded, which stamps closed_at, no    *)
(* later start_election() succeeds (a success stamps started_at) and the    *)
(* election is not made active by one                                       *)
C26_NoStartAfterClose ==
    [][election.closed_at # "None" =>
          ~(election'.started_at # election.started_at /\ election'.active)]_vars

(* C27: no vote is accepted for a closed election: whenever closed_at is    *)
(* set, is_voting_open() is false and VoteView.post stores no Vote          *)
C27_ClosedTakesNoVotes ==
    [][election.closed_at # "None" =>
          /\ ~is_voting_open(election, window)
          /\ votes' = votes]_vars

(* C28: Election.is_editable() returns a boolean in every reachable state:  *)
(* every state with active = True has started_at set                        *)
C28_ActiveHasStartedAt ==
    /\ ~is_editable_raises(election)
    /\ election.active => election.started_at # "None"

(* C29: all ballots stored for the election have the same length, the       *)
(* current number of candidates: no candidate is added or removed once a    *)
(* ballot is stored                                                         *)
C29_BallotsMatchCandidates ==
    \A i \in 1..Len(votes) : Len(votes[i].ballot) = Cardinality(candidates)

\* the votes get_results reports for candidate c
VotesFor(shown, c) ==
    LET row == CHOOSE i \in 1..Len(shown.results) : shown.results[i].candidate = c
    IN  shown.results[row].votes

RECURSIVE SumOf(_)
SumOf(s) == IF s = <<>> THEN 0 ELSE Head(s) + SumOf(Tail(s))

\* every stored ballot has one element per candidate of the election
WellFormedBallots ==
    \A i \in 1..Len(votes) : Len(votes[i].ballot) = Cardinality(candidates)

\* the counts get_results shows are decrypted_total, candidate by candidate in
\* ascending id order, and total_votes is the sum of decrypted_total
ResultsMatchTotals ==
    LET shown == get_results(election, window, votes, candidates)[1]
        decrypted_total == election.decrypted_total.list
        ids == OrderById(candidates)
    IN  /\ Len(decrypted_total) = Len(ids)
        /\ \A i \in 1..Len(ids) : VotesFor(shown, ids[i]) = decrypted_total[i]
        /\ shown.total_votes = SumOf(decrypted_total)

(* C30: for an election with persisted artifacts whose every ballot is a    *)
(* one-hot encryption with one element per candidate, the counts that       *)
(* get_results shows equal decrypted_total index by index, the candidates   *)
(* taken in ascending id order, and total_votes is the sum of               *)
(* decrypted_total                                                          *)
C30_ResultsMatchTotals ==
    (/\ Artifacts(election) # NoArtifacts
     /\ WellFormedBallots
     /\ get_results(election, window, votes, candidates) # None)
        => ResultsMatchTotals

\* the same when the persisted totals are the totals of the ballots now stored
ResultsMatchFreshTotals ==
    (/\ Artifacts(election) # NoArtifacts
     /\ WellFormedBallots
     /\ votes # <<>>
     /\ ~TallyRaises(BallotsOf(votes))
     /\ election.encrypted_positive_total
            = Tally(KeysOf(election), BallotsOf(votes)).encrypted_positive_total
     /\ get_results(election, window, votes, candidates) # None)
        => ResultsMatchTotals

\* results are shown for a tallied election whose two ballots went to the
\* second of two candidates
ResultsShown ==
    /\ Artifacts(election) # NoArtifacts
    /\ WellFormedBallots
    /\ get_results(election, window, votes, candidates) # None
    /\ election.decrypted_total = JsonList(<<0, 2>>)
    /\ get_results(election, window, votes, candidates)[1].results[1].candidate = 2

====
